---- MODULE Spec2Model ----
(***************************************************************************)
(* A model of the resolution-and-rewrite pipeline of dnt's rs-lib:         *)
(*   declaration_file_resolution.rs  (declaration file selection),         *)
(*   lib.rs                          (transform, dependencies, warnings),  *)
(*   visitors/imports_exports.rs     (the specifier rewriter).             *)
(***************************************************************************)
EXTENDS Integers, Sequences, FiniteSets, TLC

(***************************************************************************)
(* Module specifiers.  A ModuleSpecifier is a URL; it is modelled by a     *)
(* number whose order is the order of the URL strings: every `file:` URL   *)
(* sorts before every `https:` URL.                                        *)
(*   1 file:///a.ts   2 file:///b.ts   3 file:///x.d.ts  4 file:///y.d.ts  *)
(*   5 https://r/c.ts 6 https://r/d.ts                                     *)
(***************************************************************************)
LocalModules == {1, 2}

DeclFiles == {3, 4}

RemoteModules == {5, 6}

CodeModules == LocalModules \cup RemoteModules

scheme(s) == IF s \in LocalModules \cup DeclFiles THEN "file" ELSE "https"

\* Longest candidate list handed to select_best_types_dep.
MaxDeps == 3

\* Largest source text length of a declaration file.
MaxLen == 2

\* struct TypesDependency { specifier, referrer }
TypesDependency == [specifier : DeclFiles, referrer : CodeModules]

\* The derived Ord of TypesDependency: by specifier, then by referrer.
TypesDependencyLess(a, b) ==
  \/ a.specifier < b.specifier
  \/ a.specifier = b.specifier /\ a.referrer < b.referrer

\* Sequences of n distinct elements of S (a HashSet collected into a Vec).
DistinctSeqs(S, n) ==
  {q \in [1..n -> S] : \A a, b \in 1..n : a # b => q[a] # q[b]}

\* Every order in which the elements of the set S can be iterated.
Orders(S) == DistinctSeqs(S, Cardinality(S))

Range(q) == {q[k] : k \in 1..Len(q)}

\* Option::None of a ModuleSpecifier.
NoSpec == 0

\* The modules of the graph handed to the pipeline: two local, one remote.
GraphModules == {1, 2, 5}

\* Longest module list handed to resolve_declaration_file_mappings.
MaxModules == 2

\* Largest number of declaration file candidates of a whole graph.
MaxCandidates == 2

\* Largest number of modules reachable only from test entry points.
MaxTestModules == 1

\* Raw texts of a module's declared type reference.
RefTexts == {"./x.d.ts", "./y.d.ts"}

\* Vec<TypesDependency>::sort(): insertion into a sorted prefix, by the derived Ord.
RECURSIVE InsertTypesDependency(_, _)
InsertTypesDependency(q, x) ==
  IF q = <<>> THEN <<x>>
  ELSE IF TypesDependencyLess(x, q[Len(q)])
       THEN Append(InsertTypesDependency(SubSeq(q, 1, Len(q) - 1), x), q[Len(q)])
       ELSE Append(q, x)

RECURSIVE SortTypesDependencies(_)
SortTypesDependencies(q) ==
  IF q = <<>> THEN <<>>
  ELSE InsertTypesDependency(SortTypesDependencies(SubSeq(q, 1, Len(q) - 1)), q[Len(q)])

\* The elements of a set of specifiers in ascending order (the iteration
\* order of a BTreeMap's keys).
RECURSIVE Ascending(_)
Ascending(S) ==
  IF S = {} THEN <<>>
  ELSE LET least == CHOOSE x \in S : \A y \in S : x <= y
       IN  <<least>> \o Ascending(S \ {least})

VARIABLES
  srcLen,          \* module_graph.get(s).source.len(), per declaration file
  code_specifier,  \* select_best_types_dep: the code module
  deps,            \* select_best_types_dep: the candidate list
  sel_i,           \* index of the candidate the loop looks at next
  selected_dep,    \* the running best
  sel_pc,          \* "loop" | "returned"
  modules,         \* resolve_declaration_file_mappings: the specifiers of the module list
  types_err,       \* the modules whose declared type reference failed to resolve,
                   \* each with the raw text of the reference
  visited,         \* the modules the first loop has passed to fill_types_for_module
  type_dependencies, \* BTreeMap<ModuleSpecifier, HashSet<TypesDependency>>
  mappings,        \* BTreeMap<ModuleSpecifier, DeclarationFileResolution>
  error,           \* the anyhow error of a failed run, or NoError
  specifiers,      \* Specifiers { local, remote, types, test_modules }
  warnings,        \* TransformOutput.warnings
  main_files,      \* main_environment.files
  test_files,      \* test_environment.files
  emit_i,          \* index into the chain local ++ remote ++ selected declaration files
  pc,              \* position in the pipeline
  main_mapped,     \* specifiers.main.mapped: BTreeMap<ModuleSpecifier, MappedSpecifierEntry>
  test_mapped,     \* specifiers.test.mapped
  main_dependencies, \* main_environment.dependencies
  test_dependencies, \* test_environment.dependencies
  dep_pc,          \* "main" | "test" | "done"
  program,         \* the syntax tree of the module being rewritten
  tokens,          \* the tokens of its source text, with their spans
  todo,            \* the nodes visit_children has still to look at, depth first
  text_changes,    \* context.text_changes
  vis_pc           \* "visit" | "done"

selVars == <<srcLen, code_specifier, deps, sel_i, selected_dep, sel_pc>>

resVars == <<modules, types_err, visited, type_dependencies, mappings, error>>

outVars == <<specifiers, warnings, main_files, test_files, emit_i>>

pipeVars == <<resVars, outVars, pc>>

depVars == <<main_mapped, test_mapped, main_dependencies, test_dependencies, dep_pc>>

visVars == <<program, tokens, todo, text_changes, vis_pc>>

vars == <<selVars, pipeVars, depVars, visVars>>

\* The variables the selection loop leaves alone.
nonSelVars == <<pipeVars, depVars, visVars>>

\* The variables of the specifier rewriter while it is not modelled.
VisIdle ==
  /\ program = <<>> /\ tokens = <<>> /\ todo = <<>>
  /\ text_changes = <<>> /\ vis_pc = "idle"

\* The variables of get_dependencies while it is not modelled.
DepIdle ==
  /\ main_mapped = <<>> /\ test_mapped = <<>>
  /\ main_dependencies = <<>> /\ test_dependencies = <<>> /\ dep_pc = "idle"

\* The variables of the pipeline while only the selection loop is modelled.
PipeIdle ==
  /\ modules = {} /\ types_err = <<>> /\ visited = {}
  /\ type_dependencies = <<>> /\ mappings = <<>> /\ error = "none"
  /\ specifiers = "none" /\ warnings = <<>>
  /\ main_files = <<>> /\ test_files = <<>> /\ emit_i = 1
  /\ pc = "idle"

(***************************************************************************)
(* declaration_file_resolution.rs: select_best_types_dep                   *)
(***************************************************************************)
\* A slip: the self-declared check is lost, the largest file wins.
should_replace_size_first(len, code, dep, sel) ==
  LET is_dep_referrer_local == scheme(dep.referrer) = "file"
      is_selected_referrer_local == scheme(sel.referrer) = "file"
  IN  IF is_dep_referrer_local /\ ~is_selected_referrer_local THEN TRUE
      ELSE IF is_dep_referrer_local = is_selected_referrer_local
           THEN len[dep.specifier] > len[sel.specifier]
           ELSE FALSE

\* A slip: the local-over-remote branch is lost.
should_replace_no_local(len, code, dep, sel) ==
  LET is_dep_referrer_code == dep.referrer = code
      is_selected_referrer_code == sel.referrer = code
  IN  IF is_selected_referrer_code THEN FALSE
      ELSE IF is_dep_referrer_code THEN TRUE
      ELSE len[dep.specifier] > len[sel.specifier]

\* The body of the loop: whether dep replaces the running best sel.
should_replace(len, code, dep, sel) ==
  LET is_dep_referrer_local == scheme(dep.referrer) = "file"
      is_dep_referrer_code == dep.referrer = code
      is_selected_referrer_local == scheme(sel.referrer) = "file"
      is_selected_referrer_code == sel.referrer = code
  IN  IF is_dep_referrer_local /\ ~is_selected_referrer_local THEN TRUE
      ELSE IF is_dep_referrer_local = is_selected_referrer_local
           THEN IF is_selected_referrer_code THEN FALSE
                ELSE IF is_dep_referrer_code THEN TRUE
                ELSE len[dep.specifier] > len[sel.specifier]
           ELSE FALSE

RECURSIVE select_from(_, _, _, _, _)
select_from(len, code, ds, k, sel) ==
  IF k > Len(ds) THEN sel
  ELSE select_from(len, code, ds, k + 1,
                   IF should_replace(len, code, ds[k], sel) THEN ds[k] ELSE sel)

\* select_best_types_dep(module_graph, code_specifier, deps), deps non-empty.
select_best_types_dep(len, code, ds) == select_from(len, code, ds, 2, ds[1])

(***************************************************************************)
(* The selection loop, one iteration per step.                             *)
(***************************************************************************)
SelectInit ==
  /\ srcLen \in [DeclFiles -> 1..MaxLen]
  /\ code_specifier \in CodeModules
  /\ \E n \in 1..MaxDeps : deps \in DistinctSeqs(TypesDependency, n)
  /\ sel_i = 2
  /\ selected_dep = deps[1]
  /\ sel_pc = "loop"
  /\ PipeIdle
  /\ DepIdle
  /\ VisIdle

SelectReplace ==
  /\ sel_pc = "loop"
  /\ sel_i <= Len(deps)
  /\ should_replace(srcLen, code_specifier, deps[sel_i], selected_dep)
  /\ selected_dep' = deps[sel_i]
  /\ sel_i' = sel_i + 1
  /\ UNCHANGED <<srcLen, code_specifier, deps, sel_pc, nonSelVars>>

SelectKeep ==
  /\ sel_pc = "loop"
  /\ sel_i <= Len(deps)
  /\ ~should_replace(srcLen, code_specifier, deps[sel_i], selected_dep)
  /\ sel_i' = sel_i + 1
  /\ UNCHANGED <<srcLen, code_specifier, deps, selected_dep, sel_pc, nonSelVars>>

SelectReturn ==
  /\ sel_pc = "loop"
  /\ sel_i > Len(deps)
  /\ sel_pc' = "returned"
  /\ UNCHANGED <<srcLen, code_specifier, deps, sel_i, selected_dep, nonSelVars>>

SelectNext == SelectReplace \/ SelectKeep \/ SelectReturn

SpecSelect == SelectInit /\ [][SelectNext]_vars

(***************************************************************************)
(* declaration_file_resolution.rs: fill_types_for_module                   *)
(***************************************************************************)
\* module.maybe_types_dependency of module m:
\*   None | Some((text, None)) | Some((text, Some(Err))) | Some((text, Some(Ok(target))))
MaybeTypesDependency(m, failed) ==
  IF m \in DOMAIN failed
  THEN {[kind |-> "err", text |-> failed[m], target |-> NoSpec]}
  ELSE {[kind |-> "none", text |-> "", target |-> NoSpec]}
       \cup {[kind |-> "unresolved", text |-> t, target |-> NoSpec] : t \in RefTexts}
       \cup {[kind |-> "ok", text |-> t, target |-> d] : t \in RefTexts, d \in DeclFiles}

\* One entry of module.dependencies: dep.get_code() and dep.get_type().
Dependency(targets) ==
  [maybe_code : targets \cup {NoSpec}, maybe_type : DeclFiles \cup {NoSpec}]

\* module.dependencies of a module of a graph whose modules are `targets`.
\* A module has no dependency or one.
Dependencies(targets) == {{}} \cup {{d} : d \in Dependency(targets)}

\* type_dependencies.entry(code).or_insert_with(HashSet::new).insert(TypesDependency {..})
add_type_dependency(module, code, type_specifier, td) ==
  LET dep == [specifier |-> type_specifier, referrer |-> module.specifier]
  IN  IF code \in DOMAIN td
      THEN [td EXCEPT ![code] = @ \cup {dep}]
      ELSE (code :> {dep}) @@ td

\* The loop over module.dependencies.values(): every dependency with a type
\* and a code reference adds a candidate.
RECURSIVE add_dependencies(_, _, _)
add_dependencies(module, ds, td) ==
  IF ds = {} THEN td
  ELSE LET dep == CHOOSE d \in ds : TRUE
           td1 == IF dep.maybe_type # NoSpec /\ dep.maybe_code # NoSpec
                  THEN add_type_dependency(module, dep.maybe_code, dep.maybe_type, td)
                  ELSE td
       IN  add_dependencies(module, ds \ {dep}, td1)

\* A slip: a failed declared reference is skipped instead of reported.
fill_types_for_module_lenient(module, td) ==
  LET mtd == module.maybe_types_dependency
      td1 == IF mtd.kind = "ok"
             THEN add_type_dependency(module, module.specifier, mtd.target, td)
             ELSE td
  IN  [ok |-> TRUE, error |-> "none",
       td |-> add_dependencies(module, module.dependencies, td1)]

\* fill_types_for_module(module, &mut type_dependencies) -> Result<()>
fill_types_for_module(module, td) ==
  LET mtd == module.maybe_types_dependency
  IN  IF mtd.kind = "err"
      THEN [ok |-> FALSE,
            error |-> [specifier |-> module.specifier, text |-> mtd.text,
                       err |-> "resolution failed"],
            td |-> td]
      ELSE LET td1 == IF mtd.kind = "ok"
                      THEN add_type_dependency(module, module.specifier, mtd.target, td)
                      ELSE td
           IN  [ok |-> TRUE, error |-> "none",
                td |-> add_dependencies(module, module.dependencies, td1)]

(***************************************************************************)
(* declaration_file_resolution.rs: resolve_declaration_file_mappings       *)
(***************************************************************************)
\* A slip: the selected candidate alone is left out of `ignored`.
ignored_of_all_but_selected(ds, selected) ==
  SortTypesDependencies(SelectSeq(ds, LAMBDA d : d # selected))

\* deps.into_iter().filter(|d| d.specifier != selected_dep.specifier), sorted.
ignored_of(ds, selected) ==
  SortTypesDependencies(SelectSeq(ds, LAMBDA d : d.specifier # selected.specifier))

\* The DeclarationFileResolution of one code specifier whose candidates are
\* iterated in the order ds.
resolution_of(len, code, ds) ==
  LET selected == select_best_types_dep(len, code, ds)
  IN  [selected |-> selected, ignored |-> ignored_of(ds, selected)]

(***************************************************************************)
(* lib.rs: get_declaration_warnings                                        *)
(***************************************************************************)
LocalHint == "Supress this warning by having only one local file specify the declaration file for this module."

RemoteHint == "Supress this warning by specifying a declaration file for this module locally via @deno-types."

\* get_dep_warning: the fields the message is formatted from.
get_dep_warning(code, dep, selected_dep_, post_message) ==
  [code_specifier |-> code, specifier |-> dep.specifier, referrer |-> dep.referrer,
   selected |-> selected_dep_.specifier, post_message |-> post_message]

\* A slip: every ignored candidate is reported when the selected referrer is local.
warnings_for_unfiltered(code, d) ==
  IF scheme(d.selected.referrer) = "file"
  THEN [k \in 1..Len(d.ignored) |->
          get_dep_warning(code, d.ignored[k], d.selected, LocalHint)]
  ELSE [k \in 1..Len(d.ignored) |->
          get_dep_warning(code, d.ignored[k], d.selected, RemoteHint)]

\* The messages pushed for one entry (code, d) of specifiers.types.
warnings_for(code, d) ==
  IF scheme(d.selected.referrer) = "file"
  THEN LET local_referrers ==
             SelectSeq(d.ignored, LAMBDA x : scheme(x.referrer) = "file")
       IN  [k \in 1..Len(local_referrers) |->
              get_dep_warning(code, local_referrers[k], d.selected, LocalHint)]
  ELSE [k \in 1..Len(d.ignored) |->
          get_dep_warning(code, d.ignored[k], d.selected, RemoteHint)]

RECURSIVE warnings_from(_, _)
warnings_from(types, keys) ==
  IF keys = <<>> THEN <<>>
  ELSE warnings_for(keys[1], types[keys[1]]) \o warnings_from(types, Tail(keys))

\* get_declaration_warnings(&specifiers): the entries of types in key order.
get_declaration_warnings(specs) ==
  warnings_from(specs.types, Ascending(DOMAIN specs.types))

(***************************************************************************)
(* lib.rs: transform                                                       *)
(***************************************************************************)
\* mappings.get_file_path(specifier): an injective map to output paths.
get_file_path(s) == <<"out", s>>

\* The selected declaration file of every entry of types, in key order.
selected_specifiers(types) ==
  LET keys == Ascending(DOMAIN types)
  IN  [k \in 1..Len(keys) |-> types[keys[k]].selected.specifier]

\* specifiers.local.iter().chain(specifiers.remote.iter())
\*   .chain(specifiers.types.iter().map(|(_, d)| &d.selected.specifier))
emit_chain(specs) ==
  specs.local \o specs.remote \o selected_specifiers(specs.types)

\* The classification of the graph's modules once the declaration files are
\* resolved: the local and the remote modules that are not selected
\* declaration files, and the modules reachable only from test entry points.
Specifiers(mods, types) ==
  LET selected == Range(selected_specifiers(types))
      emitted == (mods \ selected) \cup selected
  IN  {[local |-> Ascending({m \in mods \ selected : scheme(m) = "file"}),
        remote |-> Ascending({m \in mods \ selected : scheme(m) # "file"}),
        types |-> types,
        test_modules |-> T] :
         T \in {X \in SUBSET emitted : Cardinality(X) <= MaxTestModules}}

\* OutputFile { file_path, file_text }; the text is that of the module's
\* source with its text changes applied.
OutputFile(s) == [file_path |-> get_file_path(s), file_text |-> <<"text", s>>]

(***************************************************************************)
(* resolve_declaration_file_mappings, one step per loop iteration.         *)
(***************************************************************************)
selAux == <<code_specifier, deps, sel_i, selected_dep, sel_pc, depVars, visVars>>

SelIdle ==
  /\ code_specifier = NoSpec /\ deps = <<>> /\ sel_i = 1
  /\ selected_dep = NoSpec /\ sel_pc = "idle"

OutIdle ==
  /\ specifiers = "none" /\ warnings = <<>>
  /\ main_files = <<>> /\ test_files = <<>> /\ emit_i = 1

Init ==
  /\ srcLen \in [DeclFiles -> 1..MaxLen]
  /\ modules \in {S \in SUBSET GraphModules : S # {} /\ Cardinality(S) <= MaxModules}
  /\ \E F \in SUBSET modules : types_err \in [F -> RefTexts]
  /\ visited = {}
  /\ type_dependencies = <<>>
  /\ mappings = <<>>
  /\ error = "none"
  /\ pc = "fill"
  /\ OutIdle
  /\ SelIdle
  /\ DepIdle
  /\ VisIdle

\* The module with specifier m, with the contents the graph gives it.
Module(m) ==
  {[specifier |-> m, maybe_types_dependency |-> mtd, dependencies |-> ds] :
     mtd \in MaybeTypesDependency(m, types_err),
     ds \in Dependencies(modules)}

\* for module in modules { fill_types_for_module(module, &mut type_dependencies)?; }
\* The list holds the modules in any order.
FillTypesOk ==
  /\ pc = "fill"
  /\ \E m \in modules \ visited :
       /\ \E module \in Module(m) :
            LET r == fill_types_for_module(module, type_dependencies)
            IN  /\ r.ok
                /\ type_dependencies' = r.td
       /\ visited' = visited \cup {m}
  /\ UNCHANGED <<srcLen, modules, types_err, mappings, error, pc, outVars, selAux>>

\* The `?`: the first failure ends the call with the error; nothing is returned.
FillTypesErr ==
  /\ pc = "fill"
  /\ \E m \in modules \ visited :
       /\ \E module \in Module(m) :
            LET r == fill_types_for_module(module, type_dependencies)
            IN  /\ ~r.ok
                /\ error' = r.error
       /\ visited' = visited \cup {m}
  /\ pc' = "err"
  /\ UNCHANGED <<srcLen, modules, types_err, type_dependencies, mappings, outVars, selAux>>

\* The code specifiers the second loop has not reached yet.
Unresolved == DOMAIN type_dependencies \ DOMAIN mappings

\* One iteration of `for (code_specifier, deps) in type_dependencies.into_iter()`:
\* the HashSet of candidates is collected into a Vec in some order.
ResolveOne ==
  /\ pc = "fill"
  /\ visited = modules
  /\ Unresolved # {}
  /\ LET code == CHOOSE c \in Unresolved : \A o \in Unresolved : c <= o
     IN  \E ds \in Orders(type_dependencies[code]) :
           mappings' = (code :> resolution_of(srcLen, code, ds)) @@ mappings
  /\ UNCHANGED <<srcLen, modules, types_err, visited, type_dependencies, error, pc,
                 outVars, selAux>>

\* Ok(mappings)
ReturnOk ==
  /\ pc = "fill"
  /\ visited = modules
  /\ Unresolved = {}
  /\ pc' = "ok"
  /\ UNCHANGED <<srcLen, resVars, outVars, selAux>>

Next ==
  \/ FillTypesOk
  \/ FillTypesErr
  \/ ResolveOne
  \/ ReturnOk

Spec == Init /\ [][Next]_vars

(***************************************************************************)
(* transform, from the point where the graph and its Specifiers are built, *)
(* one step per loop iteration.                                            *)
(***************************************************************************)
\* A candidate of the graph: the code module and its TypesDependency.
Candidates ==
  {[code |-> c, dep |-> [specifier |-> d, referrer |-> r]] :
     c \in GraphModules, d \in DeclFiles, r \in GraphModules}

\* The sets of at most MaxCandidates candidates.
CandidateSets ==
  {UNION {f[k] : k \in 1..MaxCandidates} :
     f \in [1..MaxCandidates -> {{}} \cup {{t} : t \in Candidates}]}

\* The type_dependencies map the first loop leaves for the candidates T.
CandidateMap(T) ==
  [c \in {t.code : t \in T} |-> {t.dep : t \in {u \in T : u.code = c}}]

\* Every result the second loop of resolve_declaration_file_mappings can
\* return for the map td, over the orders the HashSets can be iterated in.
ResolveResults(len, td) ==
  LET AllOrders == UNION {Orders(td[c]) : c \in DOMAIN td}
      OrderChoices == {o \in [DOMAIN td -> AllOrders] :
                         \A c \in DOMAIN td : o[c] \in Orders(td[c])}
  IN  {[c \in DOMAIN td |-> resolution_of(len, c, o[c])] : o \in OrderChoices}

TransformInit ==
  /\ srcLen \in [DeclFiles -> 1..MaxLen]
  /\ modules = GraphModules
  /\ types_err = <<>>
  /\ visited = modules
  /\ type_dependencies \in {CandidateMap(T) : T \in CandidateSets}
  /\ mappings \in ResolveResults(srcLen, type_dependencies)
  /\ error = "none"
  /\ pc = "ok"
  /\ OutIdle
  /\ SelIdle
  /\ DepIdle
  /\ VisIdle

\* ModuleGraph::build_with_specifiers has returned (module_graph, specifiers).
BuildSpecifiers ==
  /\ pc = "ok"
  /\ specifiers' \in Specifiers(modules, mappings)
  /\ pc' = "warnings"
  /\ UNCHANGED <<srcLen, resVars, warnings, main_files, test_files, emit_i, selAux>>

\* let warnings = get_declaration_warnings(&specifiers);
GetWarnings ==
  /\ pc = "warnings"
  /\ warnings' = get_declaration_warnings(specifiers)
  /\ pc' = "emit"
  /\ UNCHANGED <<srcLen, resVars, specifiers, main_files, test_files, emit_i, selAux>>

\* One iteration of the loop over the chain: a module of test_modules.
EmitTest ==
  /\ pc = "emit"
  /\ emit_i <= Len(emit_chain(specifiers))
  /\ emit_chain(specifiers)[emit_i] \in specifiers.test_modules
  /\ test_files' = Append(test_files, OutputFile(emit_chain(specifiers)[emit_i]))
  /\ emit_i' = emit_i + 1
  /\ UNCHANGED <<srcLen, resVars, specifiers, warnings, main_files, pc, selAux>>

\* One iteration of the loop over the chain: any other module.
EmitMain ==
  /\ pc = "emit"
  /\ emit_i <= Len(emit_chain(specifiers))
  /\ emit_chain(specifiers)[emit_i] \notin specifiers.test_modules
  /\ main_files' = Append(main_files, OutputFile(emit_chain(specifiers)[emit_i]))
  /\ emit_i' = emit_i + 1
  /\ UNCHANGED <<srcLen, resVars, specifiers, warnings, test_files, pc, selAux>>

\* Ok(TransformOutput { main, test, warnings })
Finish ==
  /\ pc = "emit"
  /\ emit_i > Len(emit_chain(specifiers))
  /\ pc' = "done"
  /\ UNCHANGED <<srcLen, resVars, outVars, selAux>>

TransformNext ==
  \/ BuildSpecifiers
  \/ GetWarnings
  \/ EmitTest
  \/ EmitMain
  \/ Finish

SpecTransform == TransformInit /\ [][TransformNext]_vars

(***************************************************************************)
(* lib.rs: get_dependencies                                                *)
(***************************************************************************)
\* The specifiers the caller maps to external packages.
MappedSpecifiers == {5, 6}

\* Package names, numbered in the order of the strings.
MaxName == 2

PackageNames == 1..MaxName

Versions == {"1.0.0", "2.0.0"}

\* Option::None of a version.
NoVersion == "none"

\* struct MappedSpecifierEntry { to_specifier, version }
MappedSpecifierEntry ==
  [to_specifier : PackageNames, version : Versions \cup {NoVersion}]

\* Vec<Dependency>::sort_by(|a, b| a.name.cmp(&b.name)): a stable sort.
RECURSIVE insert_by_name(_, _)
insert_by_name(q, x) ==
  IF q = <<>> THEN <<x>>
  ELSE IF x.name < q[Len(q)].name
       THEN Append(insert_by_name(SubSeq(q, 1, Len(q) - 1), x), q[Len(q)])
       ELSE Append(q, x)

RECURSIVE sort_by_name(_)
sort_by_name(q) ==
  IF q = <<>> THEN <<>>
  ELSE insert_by_name(sort_by_name(SubSeq(q, 1, Len(q) - 1)), q[Len(q)])

\* mappings.into_iter().filter_map(..): a Dependency for every entry with a
\* version, in key order.
RECURSIVE versioned_dependencies(_, _)
versioned_dependencies(mp, keys) ==
  IF keys = <<>> THEN <<>>
  ELSE LET entry == mp[keys[1]]
           rest == versioned_dependencies(mp, Tail(keys))
       IN  IF entry.version # NoVersion
           THEN <<[name |-> entry.to_specifier, version |-> entry.version]>> \o rest
           ELSE rest

\* A slip: the list is returned in key order.
get_dependencies_unsorted(mp) ==
  versioned_dependencies(mp, Ascending(DOMAIN mp))

\* get_dependencies(mappings) -> Vec<Dependency>
get_dependencies(mp) ==
  sort_by_name(versioned_dependencies(mp, Ascending(DOMAIN mp)))

nonDepVars == <<selVars, pipeVars, visVars>>

MappedTables ==
  UNION {[K -> MappedSpecifierEntry] : K \in SUBSET MappedSpecifiers}

DepsInit ==
  /\ main_mapped \in MappedTables
  /\ test_mapped \in MappedTables
  /\ main_dependencies = <<>>
  /\ test_dependencies = <<>>
  /\ dep_pc = "main"
  /\ srcLen = <<>>
  /\ SelIdle
  /\ PipeIdle
  /\ VisIdle

\* dependencies: get_dependencies(specifiers.main.mapped)
MainDependencies ==
  /\ dep_pc = "main"
  /\ main_dependencies' = get_dependencies(main_mapped)
  /\ dep_pc' = "test"
  /\ UNCHANGED <<main_mapped, test_mapped, test_dependencies, nonDepVars>>

\* dependencies: get_dependencies(specifiers.test.mapped)
TestDependencies ==
  /\ dep_pc = "test"
  /\ test_dependencies' = get_dependencies(test_mapped)
  /\ dep_pc' = "done"
  /\ UNCHANGED <<main_mapped, test_mapped, main_dependencies, nonDepVars>>

DepsNext == MainDependencies \/ TestDependencies

SpecDeps == DepsInit /\ [][DepsNext]_vars

(***************************************************************************)
(* The source text of a module: its syntax tree and its tokens.  A tree is *)
(* laid out from a shape; every node and token carries its byte span.      *)
(***************************************************************************)
\* The values of the string literals of the module being rewritten.
Values == {"./b.ts", "https://r/c.ts", "fs"}

\* The byte length of a value.
ValueLen(v) ==
  CASE v = "./b.ts" -> 6
    [] v = "https://r/c.ts" -> 14
    [] v = "fs" -> 2

\* Most statements of a module.
MaxStmts == 2

NoNode == [kind |-> "None"]

ImportDeclShape(v, a) == [kind |-> "ImportDecl", src |-> v, asserts |-> a]

ExportAllShape(v, a) == [kind |-> "ExportAll", src |-> v, asserts |-> a]

\* `export {} from "v" assert {};`, or `export {};` when v is "".
NamedExportShape(v, a) == [kind |-> "NamedExport", src |-> v, asserts |-> a]

StrShape(v) == [kind |-> "Str", value |-> v]

IdentShape == [kind |-> "Ident"]

ObjectLitShape == [kind |-> "ObjectLit"]

\* callee is "Import" (a dynamic import) or "Expr" (any other call).
CallExprShape(callee, args) == [kind |-> "CallExpr", callee |-> callee, args |-> args]

ExprStmtShape(e) == [kind |-> "ExprStmt", body |-> <<e>>]

BlockStmtShape(body) == [kind |-> "BlockStmt", body |-> body]

ModuleShape(body) == [kind |-> "Module", body |-> body]

Tok(text, lo, width) == [text |-> text, lo |-> lo, hi |-> lo + width]

\* `"v"` at p, optionally followed by ` assert {}`.
LayoutSource(v, a, p) ==
  LET str == Tok("str", p, ValueLen(v) + 2)
      kw == Tok("assert", str.hi + 1, 6)
      open == Tok("{", kw.hi + 1, 1)
      close == Tok("}", open.hi, 1)
  IN  [src |-> [kind |-> "Str", lo |-> str.lo, hi |-> str.hi, value |-> v,
                children |-> <<>>],
       asserts |-> IF a THEN [kind |-> "ObjectLit", lo |-> open.lo, hi |-> close.hi,
                              children |-> <<>>]
                   ELSE NoNode,
       toks |-> IF a THEN <<str, kw, open, close>> ELSE <<str>>,
       end |-> IF a THEN close.hi ELSE str.hi]

\* A statement `head "v" [assert {}];` whose head tokens are `head`.
LayoutWithSource(kind, head, v, a, p) ==
  LET from == IF head = <<>> THEN p ELSE head[Len(head)].hi + 1
      s == LayoutSource(v, a, from)
      semi == Tok(";", s.end, 1)
  IN  [node |-> [kind |-> kind, lo |-> p, hi |-> semi.hi, src |-> s.src,
                 asserts |-> s.asserts, children |-> <<>>],
       toks |-> head \o s.toks \o <<semi>>,
       end |-> semi.hi]

RECURSIVE Layout(_, _, _)
RECURSIVE LayoutSeq(_, _, _, _)
\* The nodes and tokens of the shapes laid out from p on: arguments are
\* separated by ws spaces, a comma and a space, statements by a space.
LayoutSeq(shapes, p, ws, sep) ==
  IF shapes = <<>> THEN [nodes |-> <<>>, toks |-> <<>>, end |-> p]
  ELSE LET first == Layout(shapes[1], p, ws)
       IN  IF Len(shapes) = 1
           THEN [nodes |-> <<first.node>>, toks |-> first.toks, end |-> first.end]
           ELSE LET comma == Tok(",", first.end + ws, 1)
                    rest == LayoutSeq(Tail(shapes),
                                      IF sep = "arg" THEN comma.hi + 1 ELSE first.end + 1,
                                      ws, sep)
                IN  [nodes |-> <<first.node>> \o rest.nodes,
                     toks |-> first.toks \o (IF sep = "arg" THEN <<comma>> ELSE <<>>)
                              \o rest.toks,
                     end |-> rest.end]

\* The node, the tokens and the end of the shape laid out at p.
Layout(shape, p, ws) ==
  CASE shape.kind = "ImportDecl" ->
         LayoutWithSource("ImportDecl", <<Tok("import", p, 6)>>, shape.src,
                          shape.asserts, p)
    [] shape.kind = "ExportAll" ->
         LayoutWithSource("ExportAll",
                          <<Tok("export", p, 6), Tok("*", p + 7, 1), Tok("from", p + 9, 4)>>,
                          shape.src, shape.asserts, p)
    [] shape.kind = "NamedExport" /\ shape.src # "" ->
         LayoutWithSource("NamedExport",
                          <<Tok("export", p, 6), Tok("{", p + 7, 1), Tok("}", p + 8, 1),
                            Tok("from", p + 10, 4)>>,
                          shape.src, shape.asserts, p)
    [] shape.kind = "NamedExport" /\ shape.src = "" ->
         [node |-> [kind |-> "NamedExport", lo |-> p, hi |-> p + 10, src |-> NoNode,
                    asserts |-> NoNode, children |-> <<>>],
          toks |-> <<Tok("export", p, 6), Tok("{", p + 7, 1), Tok("}", p + 8, 1),
                     Tok(";", p + 9, 1)>>,
          end |-> p + 10]
    [] shape.kind = "Str" ->
         LET s == LayoutSource(shape.value, FALSE, p)
         IN  [node |-> s.src, toks |-> s.toks, end |-> s.end]
    [] shape.kind = "Ident" ->
         [node |-> [kind |-> "Ident", lo |-> p, hi |-> p + 1, children |-> <<>>],
          toks |-> <<Tok("x", p, 1)>>, end |-> p + 1]
    [] shape.kind = "ObjectLit" ->
         [node |-> [kind |-> "ObjectLit", lo |-> p, hi |-> p + 2, children |-> <<>>],
          toks |-> <<Tok("{", p, 1), Tok("}", p + 1, 1)>>, end |-> p + 2]
    [] shape.kind = "CallExpr" ->
         LET callee == IF shape.callee = "Import" THEN Tok("import", p, 6)
                       ELSE Tok("f", p, 1)
             open == Tok("(", callee.hi, 1)
             args == LayoutSeq(shape.args, open.hi, ws, "arg")
             close == Tok(")", args.end, 1)
         IN  [node |-> [kind |-> "CallExpr", lo |-> p, hi |-> close.hi,
                        callee |-> shape.callee, args |-> args.nodes,
                        children |-> args.nodes],
              toks |-> <<callee, open>> \o args.toks \o <<close>>,
              end |-> close.hi]
    [] shape.kind = "ExprStmt" ->
         LET body == LayoutSeq(shape.body, p, ws, "stmt")
             semi == Tok(";", body.end, 1)
         IN  [node |-> [kind |-> "ExprStmt", lo |-> p, hi |-> semi.hi,
                        children |-> body.nodes],
              toks |-> body.toks \o <<semi>>, end |-> semi.hi]
    [] shape.kind = "BlockStmt" ->
         LET open == Tok("{", p, 1)
             body == LayoutSeq(shape.body, open.hi + 1, ws, "stmt")
             close == Tok("}", body.end + 1, 1)
         IN  [node |-> [kind |-> "BlockStmt", lo |-> p, hi |-> close.hi,
                        children |-> body.nodes],
              toks |-> <<open>> \o body.toks \o <<close>>, end |-> close.hi]
    [] shape.kind = "Module" ->
         LET body == LayoutSeq(shape.body, p, ws, "stmt")
         IN  [node |-> [kind |-> "Module", lo |-> p, hi |-> body.end,
                        children |-> body.nodes],
              toks |-> body.toks, end |-> body.end]

\* node.previous_token_fast(program): the last token that ends at or before
\* the start of the node (or token) at lo.
previous_token_fast(lo, toks) ==
  CHOOSE t \in Range(toks) :
    /\ t.hi <= lo
    /\ \A u \in Range(toks) : u.hi <= lo => u.hi <= t.hi

(***************************************************************************)
(* visitors/imports_exports.rs                                             *)
(***************************************************************************)
\* context.specifier: the module being rewritten, file:///a.ts.
ContextSpecifier == 1

\* module_graph.resolve_dependency(value, referrer), for the literals of
\* file:///a.ts: "fs" has no target.
resolve_dependency(value, referrer) ==
  CASE value = "./b.ts" -> 2
    [] value = "https://r/c.ts" -> 5
    [] OTHER -> NoSpec

\* context.package_specifier_mappings: https://r/c.ts is the package "c-pkg".
package_specifier_mappings == (5 :> "c-pkg")

\* get_relative_specifier(from, to): the relative specifier between two
\* output paths.
get_relative_specifier(from, to) ==
  CASE to = get_file_path(2) -> "./b.js"
    [] to = get_file_path(5) -> "./deps/r/c.js"
    [] OTHER -> "./a.js"

\* struct TextChange { range: lo..hi, new_text }
TextChange(lo, hi, new_text) == [lo |-> lo, hi |-> hi, new_text |-> new_text]

\* The replacement text of a literal that resolves to `target`.
new_text_of(target) ==
  IF target \in DOMAIN package_specifier_mappings
  THEN package_specifier_mappings[target]
  ELSE get_relative_specifier(get_file_path(ContextSpecifier), get_file_path(target))

\* A slip: the edit covers the quotes too.
visit_module_specifier_with_quotes(str) ==
  LET target == resolve_dependency(str.value, ContextSpecifier)
  IN  IF target = NoSpec THEN <<>>
      ELSE <<TextChange(str.lo, str.hi, new_text_of(target))>>

\* visit_module_specifier(str, context): the text changes it pushes.
visit_module_specifier(str) ==
  LET target == resolve_dependency(str.value, ContextSpecifier)
  IN  IF target = NoSpec THEN <<>>
      ELSE <<TextChange(str.lo + 1, str.hi - 1, new_text_of(target))>>

\* A slip: the deletion starts at the `assert` keyword.
visit_asserts_from_keyword(asserts, toks) ==
  LET assert_token == previous_token_fast(asserts.lo, toks)
  IN  <<TextChange(assert_token.lo, asserts.hi, "")>>

\* visit_asserts(asserts, context): the text change it pushes.
visit_asserts(asserts, toks) ==
  LET assert_token == previous_token_fast(asserts.lo, toks)
      previous_token == previous_token_fast(assert_token.lo, toks)
  IN  <<TextChange(previous_token.hi, asserts.hi, "")>>

\* assert_eq!(assert_token.text_fast(context.program), "assert") fails.
visit_asserts_panics(asserts, toks) ==
  asserts.kind # "None" /\ previous_token_fast(asserts.lo, toks).text # "assert"

\* if let Some(asserts) = decl.asserts { visit_asserts(asserts, context) }
visit_maybe_asserts(asserts, toks) ==
  IF asserts.kind # "None" THEN visit_asserts(asserts, toks) ELSE <<>>

\* The arm of a dynamic import whose first argument is a string literal.
visit_dynamic_import(call_expr, toks) ==
  visit_module_specifier(call_expr.args[1])
    \o (IF Len(call_expr.args) > 1
        THEN LET assert_arg == call_expr.args[2]
                 comma_token == previous_token_fast(assert_arg.lo, toks)
             IN  <<TextChange(comma_token.lo, assert_arg.hi, "")>>
        ELSE <<>>)

\* matches!(call_expr.callee, Callee::Import(_))
IsDynamicImport(node) == node.kind = "CallExpr" /\ node.callee = "Import"

\* if let Some(Node::Str(src)) = call_expr.args.get(0)
HasLiteralSource(node) == Len(node.args) > 0 /\ node.args[1].kind = "Str"

(***************************************************************************)
(* get_import_exports_text_changes, one step per child visit_children      *)
(* looks at.                                                               *)
(***************************************************************************)
\* Expressions without a call.
Atoms == {StrShape("./b.ts"), StrShape("fs"), IdentShape}

\* Dynamic imports of one argument, or of two, whose arguments hold no call.
FlatImports ==
  {CallExprShape("Import", <<a>>) : a \in Atoms}
    \cup {CallExprShape("Import", <<a, ObjectLitShape>>) : a \in Atoms}

AssertedImport == CallExprShape("Import", <<StrShape("./b.ts"), ObjectLitShape>>)

\* Dynamic imports with a dynamic import inside an argument.
NestedImports ==
  {CallExprShape("Import", <<StrShape("./b.ts"), AssertedImport>>),
   CallExprShape("Import", <<CallExprShape("Expr", <<AssertedImport>>)>>),
   CallExprShape("Import", <<CallExprShape("Expr", <<AssertedImport>>), ObjectLitShape>>)}

\* Another call with a dynamic import as its argument.
Calls == {CallExprShape("Expr", <<AssertedImport>>)}

Declarations ==
  {ImportDeclShape(v, TRUE) : v \in Values}
    \cup {ImportDeclShape("./b.ts", FALSE),
          ExportAllShape("fs", TRUE), ExportAllShape("./b.ts", FALSE),
          NamedExportShape("./b.ts", TRUE), NamedExportShape("", FALSE)}

Statements ==
  Declarations
    \cup {ExprStmtShape(e) : e \in FlatImports \cup NestedImports \cup Calls}
    \cup {ExprStmtShape(StrShape("./b.ts"))}
    \cup {BlockStmtShape(<<ImportDeclShape("./b.ts", TRUE)>>),
          BlockStmtShape(<<ExprStmtShape(AssertedImport), ExportAllShape("fs", TRUE)>>)}

Programs == UNION {[1..n -> Statements] : n \in 1..MaxStmts}

nonVisVars == <<selVars, pipeVars, depVars>>

VisitInit ==
  /\ \E body \in Programs, ws \in {0, 1} :
       LET l == Layout(ModuleShape(body), 0, ws)
       IN  /\ program = l.node
           /\ tokens = l.toks
           /\ todo = l.node.children
  /\ text_changes = <<>>
  /\ vis_pc = "visit"
  /\ srcLen = <<>>
  /\ SelIdle
  /\ PipeIdle
  /\ DepIdle

\* Node::ImportDecl(import_decl)
VisitImportDecl ==
  /\ vis_pc = "visit" /\ todo # <<>>
  /\ Head(todo).kind = "ImportDecl"
  /\ vis_pc' = IF visit_asserts_panics(Head(todo).asserts, tokens) THEN "panic"
                ELSE vis_pc
  /\ text_changes' = text_changes \o visit_module_specifier(Head(todo).src)
                       \o visit_maybe_asserts(Head(todo).asserts, tokens)
  /\ todo' = Tail(todo)
  /\ UNCHANGED <<program, tokens, nonVisVars>>

\* Node::ExportAll(export_all)
VisitExportAll ==
  /\ vis_pc = "visit" /\ todo # <<>>
  /\ Head(todo).kind = "ExportAll"
  /\ vis_pc' = IF visit_asserts_panics(Head(todo).asserts, tokens) THEN "panic"
                ELSE vis_pc
  /\ text_changes' = text_changes \o visit_module_specifier(Head(todo).src)
                       \o visit_maybe_asserts(Head(todo).asserts, tokens)
  /\ todo' = Tail(todo)
  /\ UNCHANGED <<program, tokens, nonVisVars>>

\* Node::NamedExport(named_export)
VisitNamedExport ==
  /\ vis_pc = "visit" /\ todo # <<>>
  /\ Head(todo).kind = "NamedExport"
  /\ vis_pc' = IF visit_asserts_panics(Head(todo).asserts, tokens) THEN "panic"
                ELSE vis_pc
  /\ text_changes' = text_changes
                       \o (IF Head(todo).src.kind # "None"
                           THEN visit_module_specifier(Head(todo).src) ELSE <<>>)
                       \o visit_maybe_asserts(Head(todo).asserts, tokens)
  /\ todo' = Tail(todo)
  /\ UNCHANGED <<program, tokens, nonVisVars>>

\* Node::CallExpr(call_expr), a dynamic import of a string literal.
VisitDynamicImport ==
  /\ vis_pc = "visit" /\ todo # <<>>
  /\ IsDynamicImport(Head(todo)) /\ HasLiteralSource(Head(todo))
  /\ text_changes' = text_changes \o visit_dynamic_import(Head(todo), tokens)
  /\ todo' = Tail(todo)
  /\ UNCHANGED <<program, tokens, vis_pc, nonVisVars>>

\* Node::CallExpr(call_expr), a dynamic import of anything else: nothing is
\* pushed and the arguments are not visited.
VisitDynamicImportOther ==
  /\ vis_pc = "visit" /\ todo # <<>>
  /\ IsDynamicImport(Head(todo)) /\ ~HasLiteralSource(Head(todo))
  /\ todo' = Tail(todo)
  /\ UNCHANGED <<program, tokens, text_changes, vis_pc, nonVisVars>>

\* Node::CallExpr(call_expr), not a dynamic import: visit_children(child).
VisitCallExpr ==
  /\ vis_pc = "visit" /\ todo # <<>>
  /\ Head(todo).kind = "CallExpr" /\ ~IsDynamicImport(Head(todo))
  /\ todo' = Head(todo).children \o Tail(todo)
  /\ UNCHANGED <<program, tokens, text_changes, vis_pc, nonVisVars>>

\* Any other node: visit_children(child).
VisitOther ==
  /\ vis_pc = "visit" /\ todo # <<>>
  /\ Head(todo).kind \notin {"ImportDecl", "ExportAll", "NamedExport", "CallExpr"}
  /\ todo' = Head(todo).children \o Tail(todo)
  /\ UNCHANGED <<program, tokens, text_changes, vis_pc, nonVisVars>>

\* Ok(context.text_changes)
VisitReturn ==
  /\ vis_pc = "visit" /\ todo = <<>>
  /\ vis_pc' = "done"
  /\ UNCHANGED <<program, tokens, todo, text_changes, nonVisVars>>

VisitNext ==
  \/ VisitImportDecl
  \/ VisitExportAll
  \/ VisitNamedExport
  \/ VisitDynamicImport
  \/ VisitDynamicImportOther
  \/ VisitCallExpr
  \/ VisitOther
  \/ VisitReturn

SpecVisit == VisitInit /\ [][VisitNext]_vars

(***************************************************************************)
(* Declaration file selection: select_best_types_dep.                      *)
(***************************************************************************)
IsLocal(dep) == scheme(dep.referrer) = "file"

\* C1: the selected TypesDependency is the same for every order of the
\* candidate list.
C1_OrderIndependent ==
  sel_pc = "returned" =>
    \A q \in Orders(Range(deps)) :
      select_best_types_dep(srcLen, code_specifier, q) = selected_dep

\* C2: when some candidate's referrer is local, the selected candidate's
\* referrer is local, whatever the order, the lengths and the self-declared
\* candidates.
C2_LocalReferrerPriority ==
  (sel_pc = "returned" /\ \E k \in 1..Len(deps) : IsLocal(deps[k]))
    => /\ IsLocal(selected_dep)
       /\ selected_dep = select_best_types_dep(srcLen, code_specifier, deps)

\* A remote self-declared candidate with the longer file comes first, a
\* local one follows, and the selection has returned.
C2_Witness ==
  /\ sel_pc = "returned"
  /\ Len(deps) >= 2
  /\ ~IsLocal(deps[1]) /\ deps[1].referrer = code_specifier
  /\ \E k \in 2..Len(deps) :
       /\ IsLocal(deps[k])
       /\ srcLen[deps[k].specifier] < srcLen[deps[1].specifier]
  /\ IsLocal(selected_dep)

\* C3: when all referrers are equally local and some candidate is
\* self-declared, the selected candidate is self-declared, whatever the
\* order and the lengths.
C3_SelfReferencePriority ==
  (/\ sel_pc = "returned"
   /\ \A a, b \in 1..Len(deps) : IsLocal(deps[a]) = IsLocal(deps[b])
   /\ \E k \in 1..Len(deps) : deps[k].referrer = code_specifier)
    => /\ selected_dep.referrer = code_specifier
       /\ selected_dep = select_best_types_dep(srcLen, code_specifier, deps)

\* Remote referrers only: a third-party candidate with the longer file comes
\* first, a self-declared one follows, and the selection has returned.
C3_Witness ==
  /\ sel_pc = "returned"
  /\ Len(deps) >= 2
  /\ \A k \in 1..Len(deps) : ~IsLocal(deps[k])
  /\ deps[1].referrer # code_specifier
  /\ \E k \in 2..Len(deps) :
       /\ deps[k].referrer = code_specifier
       /\ srcLen[deps[k].specifier] < srcLen[deps[1].specifier]
  /\ selected_dep.referrer = code_specifier

(***************************************************************************)
(* resolve_declaration_file_mappings.                                      *)
(***************************************************************************)
StrictlyAscending(q) ==
  \A a, b \in 1..Len(q) : a < b => TypesDependencyLess(q[a], q[b])

\* C4: for every code specifier of the result, selected and ignored together
\* are exactly the candidates collected for it, each once, and ignored is in
\* ascending order.
C4_AllNonSelectedIgnored ==
  \A c \in DOMAIN mappings :
    /\ {mappings[c].selected} \cup Range(mappings[c].ignored) = type_dependencies[c]
    /\ Len(mappings[c].ignored) = Cardinality(type_dependencies[c]) - 1
    /\ StrictlyAscending(mappings[c].ignored)

\* C4 as amended: ignored holds, each once and in ascending order, exactly
\* the candidates whose declaration file is not the selected one; a
\* candidate naming the selected declaration file from another referrer is
\* neither selected nor ignored.
C4_IgnoredAreOtherDeclarationFiles ==
  /\ \A c \in DOMAIN mappings :
       /\ mappings[c].selected \in type_dependencies[c]
       /\ Range(mappings[c].ignored) =
            {d \in type_dependencies[c] : d.specifier # mappings[c].selected.specifier}
       /\ Len(mappings[c].ignored) = Cardinality(Range(mappings[c].ignored))
       /\ StrictlyAscending(mappings[c].ignored)
  /\ pc = "ok" => DOMAIN mappings = DOMAIN type_dependencies

\* The call has returned a result in which a code specifier has an ignored
\* candidate and a candidate that names the selected file from another referrer.
C4_Witness ==
  /\ pc = "ok"
  /\ \E c \in DOMAIN mappings :
       /\ Len(mappings[c].ignored) >= 1
       /\ \E d \in type_dependencies[c] :
            /\ d # mappings[c].selected
            /\ d.specifier = mappings[c].selected.specifier

\* C7: a failed declared type reference ends the call with an error naming
\* the module, the raw reference text and the failure, and with no mapping,
\* wherever the module is in the list; without one the call succeeds.
C7_FailedReferenceIsFatal ==
  /\ pc \in {"ok", "err"} => (pc = "err" <=> DOMAIN types_err # {})
  /\ pc = "err" =>
       /\ mappings = <<>>
       /\ \E m \in DOMAIN types_err \cap visited :
            error = [specifier |-> m, text |-> types_err[m], err |-> "resolution failed"]
  /\ pc = "ok" => error = "none"
  /\ (pc = "fill" /\ visited = modules) => DOMAIN types_err = {}

\* The failing module was met second, after another module had contributed
\* candidates.
C7_Witness ==
  /\ pc = "err"
  /\ Cardinality(visited) >= 2
  /\ type_dependencies # <<>>

(***************************************************************************)
(* transform.                                                              *)
(***************************************************************************)
\* The (code module, ignored candidate) pairs of specifiers.types.
IgnoredPairs ==
  {p \in (DOMAIN specifiers.types) \X TypesDependency :
     p[2] \in Range(specifiers.types[p[1]].ignored)}

\* The warnings about the ignored candidate p[2] of code module p[1].
WarningsAbout(p) ==
  {k \in 1..Len(warnings) :
     /\ warnings[k].code_specifier = p[1]
     /\ warnings[k].specifier = p[2].specifier
     /\ warnings[k].referrer = p[2].referrer}

HintFor(c) ==
  IF IsLocal(specifiers.types[c].selected) THEN LocalHint ELSE RemoteHint

\* C5: one warning per ignored candidate, whether the selected referrer is
\* local or remote.
C5_OneWarningPerIgnored ==
  pc = "done" =>
    /\ Len(warnings) = Cardinality(IgnoredPairs)
    /\ \A p \in IgnoredPairs : Cardinality(WarningsAbout(p)) = 1

\* The ignored candidates that are reported: all of them when the selected
\* referrer is remote, those with a local referrer when it is local.
ReportedPairs ==
  {p \in IgnoredPairs : IsLocal(specifiers.types[p[1]].selected) => IsLocal(p[2])}

\* C5 as amended: one warning per ignored candidate when the selected
\* referrer is remote; when it is local, one warning per ignored candidate
\* whose referrer is local and none for an ignored remote candidate. Each
\* warning names the selected file and carries the hint of the selected
\* referrer's locality.
C5_WarningsPerReportedIgnored ==
  pc \in {"emit", "done"} =>
    /\ Len(warnings) = Cardinality(ReportedPairs)
    /\ \A p \in ReportedPairs :
         /\ Cardinality(WarningsAbout(p)) = 1
         /\ \A k \in WarningsAbout(p) :
              /\ warnings[k].selected = specifiers.types[p[1]].selected.specifier
              /\ warnings[k].post_message = HintFor(p[1])
    /\ \A p \in IgnoredPairs \ ReportedPairs : WarningsAbout(p) = {}

\* The run is over; a code module had one local-referrer and one
\* remote-referrer candidate, the local one is selected, the remote one is
\* ignored, and no warning reports it.
C5_Witness ==
  /\ pc = "done"
  /\ \E c \in DOMAIN specifiers.types :
       /\ Cardinality(type_dependencies[c]) = 2
       /\ IsLocal(specifiers.types[c].selected)
       /\ Len(specifiers.types[c].ignored) = 1
       /\ ~IsLocal(specifiers.types[c].ignored[1])
       /\ WarningsAbout(<<c, specifiers.types[c].ignored[1]>>) = {}

\* The specifiers the run emits.
Emitted == Range(emit_chain(specifiers))

FilesAt(files, s) ==
  {k \in 1..Len(files) : files[k].file_path = get_file_path(s)}

\* C6: after a successful transform every emitted specifier has exactly one
\* OutputFile in main.files and test.files together, in test.files exactly
\* when the specifier is a test module.
C6_OneFilePerModule ==
  pc = "done" =>
    \A s \in Emitted :
      /\ Cardinality(FilesAt(main_files, s)) + Cardinality(FilesAt(test_files, s)) = 1
      /\ FilesAt(test_files, s) # {} <=> s \in specifiers.test_modules

(***************************************************************************)
(* get_dependencies.                                                       *)
(***************************************************************************)
\* How often the dependency {name, version} is in the list ds.
TimesIn(ds, n, v) ==
  Cardinality({k \in 1..Len(ds) : ds[k].name = n /\ ds[k].version = v})

\* How many specifiers the table mp maps to the package n with version v.
TimesMapped(mp, n, v) ==
  Cardinality({k \in DOMAIN mp : mp[k].to_specifier = n /\ mp[k].version = v})

DependenciesOf(ds, mp) ==
  /\ \A n \in PackageNames, v \in Versions : TimesIn(ds, n, v) = TimesMapped(mp, n, v)
  /\ \A k \in 1..Len(ds) : ds[k].name \in PackageNames /\ ds[k].version \in Versions
  /\ \A a, b \in 1..Len(ds) : a < b => ds[a].name <= ds[b].name

\* C8: each environment's dependency list holds one Dependency per mapped
\* specifier with a version, none for an entry without, sorted by name.
C8_DependencyList ==
  /\ dep_pc \in {"test", "done"} => DependenciesOf(main_dependencies, main_mapped)
  /\ dep_pc = "done" => DependenciesOf(test_dependencies, test_mapped)

\* Both lists are computed; main maps two versioned specifiers whose names
\* are in descending order of their keys, test has an entry without a version.
C8_Witness ==
  /\ dep_pc = "done"
  /\ DOMAIN main_mapped = MappedSpecifiers
  /\ \A k \in MappedSpecifiers : main_mapped[k].version # NoVersion
  /\ main_mapped[5].to_specifier > main_mapped[6].to_specifier
  /\ Len(main_dependencies) = 2
  /\ \E k \in DOMAIN test_mapped : test_mapped[k].version = NoVersion
  /\ Len(test_dependencies) < Cardinality(DOMAIN test_mapped)

(***************************************************************************)
(* The specifier rewriter.                                                 *)
(***************************************************************************)
RECURSIVE NodesOf(_)
RECURSIVE NodesOfAll(_)
\* The nodes of a sequence of trees, in source order.
NodesOfAll(ns) == IF ns = <<>> THEN <<>> ELSE NodesOf(ns[1]) \o NodesOfAll(Tail(ns))

\* The node n and the nodes below it.
NodesOf(n) == <<n>> \o NodesOfAll(n.children)

AllNodes == NodesOf(program)

\* n lies in the arguments of a dynamic import.
InsideDynamicImport(n) ==
  \E k \in 1..Len(AllNodes) :
    LET m == AllNodes[k]
    IN  /\ IsDynamicImport(m)
        /\ m.lo <= n.lo /\ n.hi <= m.hi
        /\ (m.lo < n.lo \/ n.hi < m.hi)

\* The text change c lies in the span of the node n.
Within(c, n) == n.lo <= c.lo /\ c.hi <= n.hi

\* The positions in text_changes of the edits inside the node n that are
\* not edits of its specifier literal str.
DeletionsIn(n, str) ==
  {k \in 1..Len(text_changes) :
     Within(text_changes[k], n) /\ ~Within(text_changes[k], str)}

\* Exactly one such edit lies in n, and it deletes lo..hi.
DeletesExactly(n, str, lo, hi) ==
  \E k \in 1..Len(text_changes) :
    /\ DeletionsIn(n, str) = {k}
    /\ text_changes[k] = TextChange(lo, hi, "")

\* The comma between the first two arguments of the call n.
CommaBetween(n) ==
  CHOOSE t \in Range(tokens) :
    t.text = "," /\ n.args[1].hi <= t.lo /\ t.hi <= n.args[2].lo

\* A static import or re-export with an assert clause.
CarriesAsserts(n) ==
  n.kind \in {"ImportDecl", "ExportAll", "NamedExport"} /\ n.asserts.kind # "None"

\* A dynamic import of a string literal with a second argument.
LiteralImportWithArg(n) ==
  IsDynamicImport(n) /\ HasLiteralSource(n) /\ Len(n.args) > 1

\* What the rewriter owes the construct n.
ClauseRemoved(n) ==
  /\ CarriesAsserts(n) => DeletesExactly(n, n.src, n.src.hi, n.asserts.hi)
  /\ LiteralImportWithArg(n) =>
       DeletesExactly(n, n.args[1], CommaBetween(n).lo, n.args[2].hi)
  /\ IsDynamicImport(n) /\ ~HasLiteralSource(n) =>
       \A k \in 1..Len(text_changes) : ~Within(text_changes[k], n)

\* C9: every static import, re-export-all or named re-export with an assert
\* clause gets exactly one deletion from just after its specifier literal
\* to the end of the clause, every dynamic import of a string literal with a
\* second argument gets exactly one deletion from the comma before that
\* argument to its end, resolved or not, and a dynamic import of a
\* non-literal gets no edit.
C9_ClauseRemovedEverywhere ==
  vis_pc = "done" => \A k \in 1..Len(AllNodes) : ClauseRemoved(AllNodes[k])

\* C9, for the constructs that are not inside the arguments of a dynamic
\* import: each gets exactly the deletion above, resolved or not, and a
\* dynamic import of a non-literal gets no edit.
C9_ClauseRemovedOutsideDynamicImports ==
  vis_pc = "done" =>
    \A k \in 1..Len(AllNodes) :
      ~InsideDynamicImport(AllNodes[k]) => ClauseRemoved(AllNodes[k])

\* The rewriter is done with a module that has a static import of an
\* unresolvable literal with an assert clause, and a dynamic import of a
\* literal with a second argument inside a call: both clauses are deleted.
C9_Witness ==
  /\ vis_pc = "done"
  /\ \E k \in 1..Len(AllNodes) :
       LET n == AllNodes[k]
       IN  /\ CarriesAsserts(n)
           /\ resolve_dependency(n.src.value, ContextSpecifier) = NoSpec
           /\ DeletesExactly(n, n.src, n.src.hi, n.asserts.hi)
  /\ \E k \in 1..Len(AllNodes) :
       LET n == AllNodes[k]
       IN  /\ LiteralImportWithArg(n) /\ ~InsideDynamicImport(n)
           /\ DeletesExactly(n, n.args[1], CommaBetween(n).lo, n.args[2].hi)
           /\ CommaBetween(n).lo > n.args[1].hi

\* The constructs with a specifier literal, and that literal.
SpecifierLiteralOf(n) == IF IsDynamicImport(n) THEN n.args[1] ELSE n.src

HasSpecifierLiteral(n) ==
  \/ n.kind \in {"ImportDecl", "ExportAll", "NamedExport"} /\ n.src.kind = "Str"
  \/ IsDynamicImport(n) /\ HasLiteralSource(n)

\* The positions in text_changes of the edits of the string literal str.
EditsOf(str) == {k \in 1..Len(text_changes) : Within(text_changes[k], str)}

\* Two half-open ranges share no position.
Disjoint(a, b) == a.hi <= b.lo \/ b.hi <= a.lo

\* C10: the ranges of the text changes are pairwise non-overlapping, every
\* edit of a specifier literal covers exactly the characters between its
\* quotes, a literal that resolves to nothing gets no edit, and once the
\* rewriter is done a literal that resolves has its one edit (unless it is
\* inside the arguments of a dynamic import).
C10_EditsNeverOverlap ==
  /\ \A a, b \in 1..Len(text_changes) :
       /\ text_changes[a].lo <= text_changes[a].hi
       /\ a # b => Disjoint(text_changes[a], text_changes[b])
  /\ \A j \in 1..Len(AllNodes) :
       HasSpecifierLiteral(AllNodes[j]) =>
         LET str == SpecifierLiteralOf(AllNodes[j])
             resolves == resolve_dependency(str.value, ContextSpecifier) # NoSpec
         IN  /\ \A k \in EditsOf(str) :
                  /\ text_changes[k].lo = str.lo + 1
                  /\ text_changes[k].hi = str.hi - 1
             /\ ~resolves => EditsOf(str) = {}
             /\ resolves /\ vis_pc = "done" /\ ~InsideDynamicImport(AllNodes[j]) =>
                  Cardinality(EditsOf(str)) = 1

\* The rewriter is done with a module that has a block holding a dynamic
\* import with a second argument, a static re-export with an assert clause
\* whose literal does not resolve, and a literal rewritten to a package name.
C10_Witness ==
  /\ vis_pc = "done"
  /\ Len(text_changes) >= 4
  /\ \E k \in 1..Len(AllNodes) : AllNodes[k].kind = "BlockStmt"
  /\ \E k \in 1..Len(AllNodes) :
       /\ AllNodes[k].kind = "ExportAll"
       /\ resolve_dependency(AllNodes[k].src.value, ContextSpecifier) = NoSpec
  /\ \E k \in 1..Len(text_changes) : text_changes[k].new_text = "c-pkg"

====
